---- MODULE Spec2Model ----
(***************************************************************************)
(* Model of cherab/tools/observers/spectroscopic.py: a group of 0D         *)
(* spectroscopic observers (Observer0DGroup, LineOfSightGroup,             *)
(* FibreOpticGroup) and the observers themselves                           *)
(* (_SpectroscopicObserver0DBase, SpectroscopicSightLine,                  *)
(* SpectroscopicFibreOptic).                                               *)
(*                                                                         *)
(* One group and a fixed pool of constructed observers are modelled.  A    *)
(* Python value is a record [cls, num, str, items]: its class, its numeric *)
(* components, its text and, for a container, its elements.  Every value   *)
(* has the same shape, so that any two of them can be compared.            *)
(***************************************************************************)
EXTENDS Integers, Sequences, FiniteSets, TLC

VARIABLES
    group_class,   \* the class of the group: LineOfSightGroup or FibreOpticGroup
    sight_lines,   \* Observer0DGroup._sight_lines: a tuple of observers
    obs,           \* the fields of every observer of the pool
    next_id,       \* the identity the next constructed pipeline gets
    nops,          \* the number of bounded operations performed so far
    last,          \* the last call made, its arguments, its outcome and the state before it
    plt            \* matplotlib.pyplot: the figures opened and what the current one shows

vars == <<group_class, sight_lines, obs, next_id, nops, last, plt>>

-----------------------------------------------------------------------------
(* Bounds *)

MaxMembers == 2    \* the longest membership a call may build
MaxOps == 1        \* the number of attribute assignments explored in a row
MaxConnects == 1   \* the number of connect_pipelines calls explored in a row
MaxProps == 2      \* the longest properties list given to connect_pipelines

-----------------------------------------------------------------------------
(* Python values *)

PyObj(c, n, s, i) == [cls |-> c, num |-> n, str |-> s, items |-> i]
PyNone == PyObj("NoneType", <<>>, "None", <<>>)
PyInt(n) == PyObj("int", <<n>>, "", <<>>)
PyBool(b) == PyObj("bool", <<>>, IF b THEN "True" ELSE "False", <<>>)
PyStr(s) == PyObj("str", <<>>, s, <<>>)
Point3D(x, y, z) == PyObj("Point3D", <<x, y, z>>, "", <<>>)
Vector3D(x, y, z) == PyObj("Vector3D", <<x, y, z>>, "", <<>>)
PyList(items) == PyObj("list", <<>>, "", items)
PyTuple(items) == PyObj("tuple", <<>>, "", items)
NdArray(items) == PyObj("ndarray", <<>>, "", items)
PyContainer(c, items) == PyObj(c, <<>>, "", items)

\* the elements of a sequence
Range(seq) == {seq[i] : i \in 1..Len(seq)}

\* len(value) of a container
PyLen(value) == Len(value.items)

\* isinstance(value, classes)
IsInstance(value, classes) == value.cls \in classes

-----------------------------------------------------------------------------
(* Exceptions.  type: the exception class; what: which failure; a, b: the  *)
(* numbers the message reports; key: the name or key the message reports.  *)

Raise(type, what, a, b, key) == [type |-> type, what |-> what, a |-> a, b |-> b, key |-> key]
NoError == Raise("None", "none", 0, 0, "")
Failed(err) == err.type # "None"

-----------------------------------------------------------------------------
(* raysect.core: translate, rotate_basis and the composition of the two.   *)
(* The matrices are kept symbolic: a transform is the pair of the          *)
(* translation and of the (forward, up) basis it was built from.           *)

Cross(u, v) == <<u[2] * v[3] - u[3] * v[2], u[3] * v[1] - u[1] * v[3], u[1] * v[2] - u[2] * v[1]>>

\* rotate_basis orthonormalises (forward, up): it raises for a pair of colinear vectors,
\* which spans no basis (the class of the exception is raysect's; the model calls it
\* Exception)
RotateBasisRaises(forward, up) == Cross(forward.num, up.num) = <<0, 0, 0>>

RotateBasis(forward, up) == [forward |-> forward.num, up |-> up.num]
Translate(x, y, z) == <<x, y, z>>
Compose(translation, rotation) == [translate |-> translation, rotate |-> rotation]

\* Node.__init__'s default transform: the identity matrix
IdentityTransform == Compose(Translate(0, 0, 0), RotateBasis(Vector3D(0, 0, 1), Vector3D(0, 1, 0)))

-----------------------------------------------------------------------------
(* Pipelines (raysect.optical.observer): the four kinds the module         *)
(* supports and one kind of the user's own.  samples is what the pipeline  *)
(* has recorded: None until an observation completed.                      *)

SpectralKinds == {"SpectralRadiancePipeline0D", "SpectralPowerPipeline0D"}
MonoKinds == {"RadiancePipeline0D", "PowerPipeline0D"}
SupportedKinds == SpectralKinds \cup MonoKinds
PipelineKinds == SupportedKinds \cup {"UserPipeline0D"}

\* isinstance(pipeline, base): each radiance kind derives from the power kind
IsPipelineInstance(pipeline, base) ==
    \/ pipeline.kind = base
    \/ pipeline.kind = "SpectralRadiancePipeline0D" /\ base = "SpectralPowerPipeline0D"
    \/ pipeline.kind = "RadiancePipeline0D" /\ base = "PowerPipeline0D"

\* PipelineClass(accumulate=False, name=name) for a spectral kind
NewSpectralPipeline(id, kind, name) ==
    [id |-> id, kind |-> kind, name |-> name, filter |-> PyNone,
     accumulate |-> PyBool(FALSE), display_progress |-> PyBool(TRUE), samples |-> PyNone]

\* PipelineClass(filter=filter_func, accumulate=False, name=name) for a mono kind
NewMonoPipeline(id, kind, name, filter) ==
    [id |-> id, kind |-> kind, name |-> name, filter |-> filter,
     accumulate |-> PyBool(FALSE), display_progress |-> PyNone, samples |-> PyNone]

\* a pipeline the caller built and handed to an observer's constructor
UserPipeline(id, kind, name, accumulate) ==
    [id |-> id, kind |-> kind, name |-> name, filter |-> PyNone,
     accumulate |-> IF kind \in SupportedKinds THEN accumulate ELSE PyNone,
     display_progress |-> IF kind \in SpectralKinds THEN PyBool(TRUE) ELSE PyNone,
     samples |-> PyNone]

-----------------------------------------------------------------------------
(* Observers *)

Obs == {"s1", "s2", "f1", "f2"}

ObserverClass(o) == IF o \in {"s1", "s2"} THEN "SpectroscopicSightLine" ELSE "SpectroscopicFibreOptic"

\* the attributes the observation primitive stores as they are given
TracingProps == {"min_wavelength", "max_wavelength", "spectral_bins", "ray_extinction_prob",
                 "ray_extinction_min_depth", "ray_max_depth", "ray_important_path_weight",
                 "pixel_samples", "samples_per_task"}
FibreProps == {"acceptance_angle", "radius"}
PlainProps == TracingProps \cup FibreProps
FlagProps == {"display_progress", "accumulate"}
GeometryProps == {"origin", "direction"}
ForwardedProps == GeometryProps \cup FlagProps \cup PlainProps

\* the result of a call on an observer: the observer after it, the exception it
\* raised and the calls it made (to rotate_basis, to observe)
Outcome(ob, err, calls) == [ob |-> ob, err |-> err, calls |-> calls]

\* the up-vector of the origin and direction setters
UpVector(direction) ==
    IF direction.num[1] # 0 \/ direction.num[2] # 0 \/ direction.num[3] # 1
    THEN Vector3D(0, 0, 1)
    ELSE Vector3D(1, 0, 0)

\* _SpectroscopicObserver0DBase.origin (setter)
ObserverSetOrigin(ob, value) ==
    IF ~IsInstance(value, {"Point3D"})
    THEN Outcome(ob, Raise("TypeError", "not_point3d", 0, 0, "origin"), <<>>)
    ELSE LET up == UpVector(ob.direction)
             stored == [ob EXCEPT !.origin = value]
             call == [forward |-> ob.direction, up |-> up]
         IN IF RotateBasisRaises(ob.direction, up)
            THEN Outcome(stored, Raise("Exception", "rotate_basis", 0, 0, "origin"), <<call>>)
            ELSE Outcome([stored EXCEPT !.transform =
                              Compose(Translate(value.num[1], value.num[2], value.num[3]),
                                      RotateBasis(ob.direction, up))],
                         NoError, <<call>>)

\* _SpectroscopicObserver0DBase.direction (setter)
ObserverSetDirection(ob, value) ==
    IF ~IsInstance(value, {"Vector3D"})
    THEN Outcome(ob, Raise("TypeError", "not_vector3d", 0, 0, "direction"), <<>>)
    ELSE LET up == UpVector(value)
             stored == [ob EXCEPT !.direction = value]
             call == [forward |-> value, up |-> up]
         IN IF RotateBasisRaises(value, up)
            THEN Outcome(stored, Raise("Exception", "rotate_basis", 0, 0, "direction"), <<call>>)
            ELSE Outcome([stored EXCEPT !.transform =
                              Compose(Translate(ob.origin.num[1], ob.origin.num[2], ob.origin.num[3]),
                                      RotateBasis(value, up))],
                         NoError, <<call>>)

\* _SpectroscopicObserver0DBase.display_progress (getter)
ObserverGetDisplayProgress(ob) ==
    PyList([i \in 1..Len(ob.pipelines) |->
               IF IsPipelineInstance(ob.pipelines[i], "SpectralPowerPipeline0D")
               THEN ob.pipelines[i].display_progress
               ELSE PyNone])

\* _SpectroscopicObserver0DBase.display_progress (setter)
ObserverSetDisplayProgress(ob, value) ==
    Outcome([ob EXCEPT !.pipelines =
                 [i \in 1..Len(ob.pipelines) |->
                     IF IsPipelineInstance(ob.pipelines[i], "SpectralPowerPipeline0D")
                     THEN [ob.pipelines[i] EXCEPT !.display_progress = value]
                     ELSE ob.pipelines[i]]],
            NoError, <<>>)

\* _SpectroscopicObserver0DBase.accumulate (getter)
ObserverGetAccumulate(ob) ==
    PyList([i \in 1..Len(ob.pipelines) |->
               IF \/ IsPipelineInstance(ob.pipelines[i], "PowerPipeline0D")
                  \/ IsPipelineInstance(ob.pipelines[i], "SpectralPowerPipeline0D")
               THEN ob.pipelines[i].accumulate
               ELSE PyNone])

\* a setter that writes accumulate to every pipeline, whatever its kind
ObserverSetAccumulateAll(ob, value) ==
    Outcome([ob EXCEPT !.pipelines =
                 [i \in 1..Len(ob.pipelines) |-> [ob.pipelines[i] EXCEPT !.accumulate = value]]],
            NoError, <<>>)

\* _SpectroscopicObserver0DBase.accumulate (setter)
ObserverSetAccumulate(ob, value) ==
    Outcome([ob EXCEPT !.pipelines =
                 [i \in 1..Len(ob.pipelines) |->
                     IF \/ IsPipelineInstance(ob.pipelines[i], "PowerPipeline0D")
                        \/ IsPipelineInstance(ob.pipelines[i], "SpectralPowerPipeline0D")
                     THEN [ob.pipelines[i] EXCEPT !.accumulate = value]
                     ELSE ob.pipelines[i]]],
            NoError, <<>>)

\* sight_line.<prop> = v, as the group's setters write it
ObserverSet(ob, prop, value) ==
    CASE prop = "name" -> Outcome([ob EXCEPT !.name = value], NoError, <<>>)
      [] prop = "origin" -> ObserverSetOrigin(ob, value)
      [] prop = "direction" -> ObserverSetDirection(ob, value)
      [] prop = "display_progress" -> ObserverSetDisplayProgress(ob, value)
      [] prop = "accumulate" -> ObserverSetAccumulate(ob, value)
      [] OTHER -> Outcome([ob EXCEPT !.attr[prop] = value], NoError, <<>>)

\* sight_line.<prop>, as the group's getters read it
ObserverGet(ob, prop) ==
    CASE prop = "name" -> ob.name
      [] prop = "origin" -> ob.origin
      [] prop = "direction" -> ob.direction
      [] prop = "display_progress" -> ObserverGetDisplayProgress(ob)
      [] prop = "accumulate" -> ObserverGetAccumulate(ob)
      [] OTHER -> ob.attr[prop]

\* the state of an observer when its constructor calls the base constructor
BareObserver(cls, pipelines, name) ==
    [cls |-> cls, name |-> name, parent |-> "None",
     origin |-> Point3D(0, 0, 0), direction |-> Vector3D(1, 0, 0),
     transform |-> IdentityTransform, pipelines |-> pipelines,
     attr |-> [p \in PlainProps |-> PyInt(0)]]

\* SpectroscopicSightLine.__init__ and SpectroscopicFibreOptic.__init__
NewObserver(cls, origin, direction, pipelines, name) ==
    ObserverSetDirection(ObserverSetOrigin(BareObserver(cls, pipelines, name), origin).ob,
                         direction).ob

-----------------------------------------------------------------------------
(* Observer0DGroup: the bulk getters and setters *)

GroupClasses == {"LineOfSightGroup", "FibreOpticGroup"}

\* the observer class the sight_lines of a group of class gc must have
RequiredClass(gc) ==
    IF gc = "LineOfSightGroup" THEN "SpectroscopicSightLine" ELSE "SpectroscopicFibreOptic"

\* the classes a bulk setter takes for a collection of per-member values
CollectionClasses(prop) ==
    IF prop \in {"name", "origin", "direction"}
    THEN {"list", "tuple"}
    ELSE {"list", "tuple", "ndarray"}

\* [sight_line.<prop> for sight_line in self._sight_lines]
GroupGet(os, lines, prop) ==
    PyList([i \in 1..Len(lines) |-> ObserverGet(os[lines[i]], prop)])

\* a loop that gives every sight-line the first of the values
RECURSIVE AssignEachFirstItem(_, _, _, _, _)
AssignEachFirstItem(os, lines, prop, values, i) ==
    IF i > Len(lines)
    THEN [obs |-> os, err |-> NoError, calls |-> <<>>]
    ELSE LET r == ObserverSet(os[lines[i]], prop, values[1])
             os1 == [os EXCEPT ![lines[i]] = r.ob]
         IN IF Failed(r.err)
            THEN [obs |-> os1, err |-> r.err, calls |-> r.calls]
            ELSE LET rest == AssignEachFirstItem(os1, lines, prop, values, i + 1)
                 IN [obs |-> rest.obs, err |-> rest.err, calls |-> r.calls \o rest.calls]

\* for sight_line, v in zip(self._sight_lines, values): sight_line.<prop> = v
\* from position i on; the first exception ends the loop
RECURSIVE AssignEach(_, _, _, _, _)
AssignEach(os, lines, prop, values, i) ==
    IF i > Len(lines)
    THEN [obs |-> os, err |-> NoError, calls |-> <<>>]
    ELSE LET r == ObserverSet(os[lines[i]], prop, values[i])
             os1 == [os EXCEPT ![lines[i]] = r.ob]
         IN IF Failed(r.err)
            THEN [obs |-> os1, err |-> r.err, calls |-> r.calls]
            ELSE LET rest == AssignEach(os1, lines, prop, values, i + 1)
                 IN [obs |-> rest.obs, err |-> rest.err, calls |-> r.calls \o rest.calls]

\* Observer0DGroup.names (setter)
GroupSetNames(os, lines, value) ==
    IF IsInstance(value, CollectionClasses("name"))
    THEN IF PyLen(value) = Len(lines)
         THEN AssignEach(os, lines, "name", value.items, 1)
         ELSE [obs |-> os, err |-> Raise("ValueError", "length_mismatch", PyLen(value), Len(lines), "names"),
               calls |-> <<>>]
    ELSE [obs |-> os, err |-> Raise("TypeError", "not_list_or_tuple", 0, 0, "names"), calls |-> <<>>]

\* a setter that gives a single value to the first sight-line only
GroupSetAttrFirstOnly(os, lines, prop, value) ==
    IF IsInstance(value, CollectionClasses(prop))
    THEN IF PyLen(value) = Len(lines)
         THEN AssignEach(os, lines, prop, value.items, 1)
         ELSE [obs |-> os, err |-> Raise("ValueError", "length_mismatch", PyLen(value), Len(lines), prop),
               calls |-> <<>>]
    ELSE AssignEach(os, IF lines = <<>> THEN <<>> ELSE <<lines[1]>>, prop, <<value>>, 1)

\* a setter that takes a collection longer than the membership and drops the excess,
\* as zip alone would
GroupSetAttrLenient(os, lines, prop, value) ==
    IF IsInstance(value, CollectionClasses(prop))
    THEN IF PyLen(value) >= Len(lines)
         THEN AssignEach(os, lines, prop, value.items, 1)
         ELSE [obs |-> os, err |-> Raise("ValueError", "length_mismatch", PyLen(value), Len(lines), prop),
               calls |-> <<>>]
    ELSE AssignEach(os, lines, prop, [i \in 1..Len(lines) |-> value], 1)

\* a setter that assigns to no sight-line when the assignment to one of them raises
GroupSetAttrAtomic(os, lines, prop, value) ==
    LET r == IF IsInstance(value, CollectionClasses(prop))
             THEN IF PyLen(value) = Len(lines)
                  THEN AssignEach(os, lines, prop, value.items, 1)
                  ELSE [obs |-> os, err |-> Raise("ValueError", "length_mismatch", PyLen(value), Len(lines), prop),
                        calls |-> <<>>]
             ELSE AssignEach(os, lines, prop, [i \in 1..Len(lines) |-> value], 1)
    IN IF Failed(r.err) THEN [obs |-> os, err |-> r.err, calls |-> r.calls] ELSE r

\* Observer0DGroup.<prop> (setter), prop one of the forwarded attributes
GroupSetAttr(os, lines, prop, value) ==
    IF IsInstance(value, CollectionClasses(prop))
    THEN IF PyLen(value) = Len(lines)
         THEN AssignEach(os, lines, prop, value.items, 1)
         ELSE [obs |-> os, err |-> Raise("ValueError", "length_mismatch", PyLen(value), Len(lines), prop),
               calls |-> <<>>]
    ELSE AssignEach(os, lines, prop, [i \in 1..Len(lines) |-> value], 1)

-----------------------------------------------------------------------------
(* Observer0DGroup.__getitem__ and _SpectroscopicObserver0DBase.get_pipeline *)

\* seq[k] for a Python index k: the element, or nothing when k is out of range
PyIndex(seq, k) ==
    IF 0 <= k /\ k < Len(seq) THEN <<seq[k + 1]>>
    ELSE IF k < 0 /\ -Len(seq) <= k THEN <<seq[Len(seq) + k + 1]>>
    ELSE <<>>

\* a lookup that returns the first of several sight-lines of the same name
GroupGetItemFirstMatch(os, lines, item) ==
    IF IsInstance(item, {"int"})
    THEN IF PyIndex(lines, item.num[1]) # <<>>
         THEN [err |-> NoError, ret |-> PyIndex(lines, item.num[1])]
         ELSE [err |-> Raise("IndexError", "not_available", item.num[1], Len(lines), ""), ret |-> <<>>]
    ELSE IF IsInstance(item, {"str"})
    THEN LET sightlines == SelectSeq(lines, LAMBDA o : os[o].name = item)
         IN IF Len(sightlines) >= 1
            THEN [err |-> NoError, ret |-> <<sightlines[1]>>]
            ELSE [err |-> Raise("ValueError", "not_found", 0, 0, item.str), ret |-> <<>>]
    ELSE [err |-> Raise("TypeError", "key_not_int_or_str", 0, 0, ""), ret |-> <<>>]

\* Observer0DGroup.__getitem__: the exception raised and the sight-line returned
GroupGetItem(os, lines, item) ==
    IF IsInstance(item, {"int"})
    THEN IF PyIndex(lines, item.num[1]) # <<>>
         THEN [err |-> NoError, ret |-> PyIndex(lines, item.num[1])]
         ELSE [err |-> Raise("IndexError", "not_available", item.num[1], Len(lines), ""), ret |-> <<>>]
    ELSE IF IsInstance(item, {"str"})
    THEN LET sightlines == SelectSeq(lines, LAMBDA o : os[o].name = item)
         IN IF Len(sightlines) = 1
            THEN [err |-> NoError, ret |-> <<sightlines[1]>>]
            ELSE IF Len(sightlines) = 0
            THEN [err |-> Raise("ValueError", "not_found", 0, 0, item.str), ret |-> <<>>]
            ELSE [err |-> Raise("ValueError", "found_several", Len(sightlines), 0, item.str), ret |-> <<>>]
    ELSE [err |-> Raise("TypeError", "key_not_int_or_str", 0, 0, ""), ret |-> <<>>]

\* _SpectroscopicObserver0DBase.get_pipeline: the exception raised and the pipeline returned
GetPipeline(ob, item) ==
    IF IsInstance(item, {"int"})
    THEN IF PyIndex(ob.pipelines, item.num[1]) # <<>>
         THEN [err |-> NoError, ret |-> PyIndex(ob.pipelines, item.num[1])]
         ELSE [err |-> Raise("IndexError", "not_available", item.num[1], Len(ob.pipelines), ""), ret |-> <<>>]
    ELSE IF IsInstance(item, {"str"})
    THEN LET pipelines == SelectSeq(ob.pipelines, LAMBDA p : p.name = item)
         IN IF Len(pipelines) = 1
            THEN [err |-> NoError, ret |-> <<pipelines[1]>>]
            ELSE IF Len(pipelines) = 0
            THEN [err |-> Raise("ValueError", "not_found", 0, 0, item.str), ret |-> <<>>]
            ELSE [err |-> Raise("ValueError", "found_several", Len(pipelines), 0, item.str), ret |-> <<>>]
    ELSE [err |-> Raise("TypeError", "key_not_int_or_str", 0, 0, ""), ret |-> <<>>]

\* the Spectrum built from a pipeline: the pipeline it came from and its number of samples
Spectrum(pipeline, size) == PyObj("Spectrum", <<pipeline.id, size>>, "", <<>>)

\* an observed_spectrum that does not test the samples of a spectral pipeline and returns
\* a spectrum without bins when nothing was recorded
ObservedSpectrumUntested(ob, item) ==
    LET got == GetPipeline(ob, item)
    IN IF Failed(got.err)
       THEN [err |-> got.err, ret |-> <<>>]
       ELSE IF IsPipelineInstance(got.ret[1], "PowerPipeline0D")
       THEN [err |-> NoError, ret |-> <<Spectrum(got.ret[1], 1)>>]
       ELSE IF IsPipelineInstance(got.ret[1], "SpectralPowerPipeline0D")
       THEN [err |-> NoError,
             ret |-> <<Spectrum(got.ret[1], IF got.ret[1].samples = PyNone
                                            THEN 0 ELSE got.ret[1].samples.num[1])>>]
       ELSE [err |-> Raise("TypeError", "unsupported_pipeline", 0, 0, ""), ret |-> <<>>]

\* _SpectroscopicObserver0DBase.observed_spectrum: the exception raised and the spectrum
\* returned (the observer's max_wavelength is above its min_wavelength, so that the
\* division of the mono branch is defined)
ObservedSpectrum(ob, item) ==
    LET got == GetPipeline(ob, item)
    IN IF Failed(got.err)
       THEN [err |-> got.err, ret |-> <<>>]
       ELSE IF IsPipelineInstance(got.ret[1], "PowerPipeline0D")
       THEN [err |-> NoError, ret |-> <<Spectrum(got.ret[1], 1)>>]
       ELSE IF IsPipelineInstance(got.ret[1], "SpectralPowerPipeline0D")
       THEN IF got.ret[1].samples = PyNone
            THEN [err |-> Raise("ValueError", "no_spectrum_observed", 0, 0, ""), ret |-> <<>>]
            ELSE [err |-> NoError, ret |-> <<Spectrum(got.ret[1], got.ret[1].samples.num[1])>>]
       ELSE [err |-> Raise("TypeError", "unsupported_pipeline", 0, 0, ""), ret |-> <<>>]

-----------------------------------------------------------------------------
(* Observer0DGroup.connect_pipelines *)

\* the inner loop: the pipelines built from properties[j..], the first of them with
\* identity id; an unsupported class raises
RECURSIVE BuildPipelines(_, _, _)
BuildPipelines(properties, j, id) ==
    IF j > Len(properties)
    THEN [pipelines |-> <<>>, err |-> NoError, next |-> id]
    ELSE LET t == properties[j]
         IN IF t.kind \in SpectralKinds \/ t.kind \in MonoKinds
            THEN LET pipeline == IF t.kind \in SpectralKinds
                                 THEN NewSpectralPipeline(id, t.kind, t.name)
                                 ELSE NewMonoPipeline(id, t.kind, t.name, t.filter)
                     rest == BuildPipelines(properties, j + 1, id + 1)
                 IN [pipelines |-> <<pipeline>> \o rest.pipelines, err |-> rest.err, next |-> rest.next]
            ELSE [pipelines |-> <<>>, err |-> Raise("ValueError", "unsupported_pipeline_class", 0, 0, t.kind),
                  next |-> id]

\* the outer loop, from the sight-line at position i on
RECURSIVE ConnectEach(_, _, _, _, _)
ConnectEach(os, lines, properties, i, id) ==
    IF i > Len(lines)
    THEN [obs |-> os, err |-> NoError, next |-> id]
    ELSE LET built == BuildPipelines(properties, 1, id)
         IN IF Failed(built.err)
            THEN [obs |-> os, err |-> built.err, next |-> built.next]
            ELSE ConnectEach([os EXCEPT ![lines[i]].pipelines = built.pipelines],
                             lines, properties, i + 1, built.next)

\* a connect_pipelines that builds the pipelines once and gives every sight-line the
\* same instances
ConnectPipelinesShared(os, lines, properties, id) ==
    IF lines = <<>>
    THEN [obs |-> os, err |-> NoError, next |-> id]
    ELSE LET built == BuildPipelines(properties, 1, id)
         IN IF Failed(built.err)
            THEN [obs |-> os, err |-> built.err, next |-> built.next]
            ELSE [obs |-> [o \in Obs |-> IF o \in Range(lines)
                                         THEN [os[o] EXCEPT !.pipelines = built.pipelines]
                                         ELSE os[o]],
                  err |-> NoError, next |-> built.next]

\* Observer0DGroup.connect_pipelines
ConnectPipelines(os, lines, properties, id) == ConnectEach(os, lines, properties, 1, id)

-----------------------------------------------------------------------------
(* Observer0DGroup.observe *)

\* what a pipeline holds once an observation of the observer ob completed: the
\* statistics of as many bins as the observer asks for
Recorded(ob) == PyObj("StatsArray1D", ob.attr["spectral_bins"].num, "", <<>>)

\* an event of a call of observe on the observer o
ObserveEvent(o, event) == [call |-> "observe", on |-> o, event |-> event]

\* sight_line.observe() (raysect's Observer0D.observe) on the observer o: every pipeline
\* records; fails says that the ray tracing raises
ObserverObserve(o, ob, fails) ==
    IF fails
    THEN Outcome(ob, Raise("Exception", "observe", 0, 0, o),
                 <<ObserveEvent(o, "started"), ObserveEvent(o, "raised")>>)
    ELSE Outcome([ob EXCEPT !.pipelines =
                      [j \in 1..Len(ob.pipelines) |-> [ob.pipelines[j] EXCEPT !.samples = Recorded(ob)]]],
                 NoError,
                 <<ObserveEvent(o, "started"), ObserveEvent(o, "returned")>>)

\* for sight_line in self._sight_lines: sight_line.observe(), from position i on
RECURSIVE ObserveEach(_, _, _, _)
ObserveEach(os, lines, failing, i) ==
    IF i > Len(lines)
    THEN [obs |-> os, err |-> NoError, calls |-> <<>>]
    ELSE LET r == ObserverObserve(lines[i], os[lines[i]], lines[i] \in failing)
             os1 == [os EXCEPT ![lines[i]] = r.ob]
         IN IF Failed(r.err)
            THEN [obs |-> os1, err |-> r.err, calls |-> r.calls]
            ELSE LET rest == ObserveEach(os1, lines, failing, i + 1)
                 IN [obs |-> rest.obs, err |-> rest.err, calls |-> r.calls \o rest.calls]

\* an observe that passes over the sight-lines whose observation raises
GroupObserveSkipping(os, lines, failing) ==
    ObserveEach(os, SelectSeq(lines, LAMBDA o : o \notin failing), failing, 1)

\* Observer0DGroup.observe
GroupObserve(os, lines, failing) == ObserveEach(os, lines, failing, 1)

-----------------------------------------------------------------------------
(* plot_spectra of an observer and of a group.  p is matplotlib.pyplot: the *)
(* number of figures opened and, of the current figure, the lines drawn,    *)
(* the title, the axis labels, the y-limit and the legend.                  *)

\* matplotlib.pyplot before any call: no figure, nothing drawn, nothing labelled
NoPlot == [figures |-> 0, lines |-> <<>>, title |-> <<>>, xlabel |-> <<>>, ylabel |-> <<>>,
           ylim |-> <<>>, legend |-> FALSE]

\* plt.figure(): a new, empty current figure
PltFigure(p) == [NoPlot EXCEPT !.figures = p.figures + 1]

\* plt.plot(..., label=label): a line on the current figure, which is opened when there
\* is none
PltPlot(p, label, style) ==
    [p EXCEPT !.figures = IF p.figures = 0 THEN 1 ELSE p.figures,
              !.lines = Append(p.lines, [label |-> label, style |-> style])]

\* the units of the y axis: the chain of isinstance tests, the radiance kinds first
UnitsOf(pipeline, unit) ==
    IF IsPipelineInstance(pipeline, "RadiancePipeline0D") THEN [unit |-> unit, per |-> "/s/m^2/str"]
    ELSE IF IsPipelineInstance(pipeline, "PowerPipeline0D") THEN [unit |-> unit, per |-> "/s"]
    ELSE IF IsPipelineInstance(pipeline, "SpectralRadiancePipeline0D") THEN [unit |-> unit, per |-> "/s/m^2/str/nm"]
    ELSE IF IsPipelineInstance(pipeline, "SpectralPowerPipeline0D") THEN [unit |-> unit, per |-> "/s/nm"]
    ELSE [unit |-> PyStr(""), per |-> ""]

\* a title '{}: {}' of an owner and a pipeline name, or '{}: pipeline {}' of an owner
\* and a pipeline number
Title(owner, form, subject) == [owner |-> owner, form |-> form, subject |-> subject]

\* the result of a plotting call: pyplot after it and the exception raised
Plotted(p, err) == [plt |-> p, err |-> err]

\* the title, the labels and the y-limit of _SpectroscopicObserver0DBase.plot_spectra;
\* 'radiance ({}})'.format(units) raises ValueError (a single '}' in the format
\* string), after the title and the x label were set
ObserverPlotExtras(ob, item, unit, ymax, p) ==
    LET pipeline == GetPipeline(ob, item).ret[1]
        limited == IF ymax # PyNone THEN [p EXCEPT !.ylim = <<ymax>>] ELSE p
        titled == [limited EXCEPT !.title = <<Title(ob.name, "name", pipeline.name)>>,
                                  !.xlabel = <<"wavelength (nm)">>]
    IN Plotted(titled, Raise("ValueError", "format_single_brace", 0, 0, "radiance ({}})"))

\* _SpectroscopicObserver0DBase.plot_spectra
ObserverPlotSpectra(ob, item, unit, ymax, extras, p) ==
    IF unit \notin {PyStr("J"), PyStr("ph")}
    THEN Plotted(p, Raise("ValueError", "unit_not_J_or_ph", 0, 0, unit.str))
    ELSE LET spectrum == ObservedSpectrum(ob, item)
         IN IF Failed(spectrum.err)
            THEN Plotted(p, spectrum.err)
            ELSE LET drawn == PltPlot(p, ob.name, IF spectrum.ret[1].num[2] > 1 THEN "line" ELSE "marker")
                 IN IF extras
                    THEN ObserverPlotExtras(ob, item, unit, ymax, drawn)
                    ELSE Plotted(drawn, NoError)

\* sight_line.get_pipeline(item) in the first loop of the group's plot_spectra: the
\* positions, from i on, of the sight-lines that have the pipeline; ValueError and
\* IndexError are caught, any other exception ends the loop
RECURSIVE ResolveEach(_, _, _, _)
ResolveEach(os, lines, item, i) ==
    IF i > Len(lines)
    THEN [found |-> <<>>, err |-> NoError]
    ELSE LET got == GetPipeline(os[lines[i]], item)
         IN IF Failed(got.err) /\ got.err.type \notin {"ValueError", "IndexError"}
            THEN [found |-> <<>>, err |-> got.err]
            ELSE LET rest == ResolveEach(os, lines, item, i + 1)
                 IN [found |-> (IF Failed(got.err) THEN <<>> ELSE <<i>>) \o rest.found,
                     err |-> rest.err]

\* for sight_line in sight_lines: sight_line.plot_spectra(item=item, unit=unit,
\* extras=False), from the k-th of the found positions on
RECURSIVE PlotEach(_, _, _, _, _, _, _)
PlotEach(os, lines, found, item, unit, k, p) ==
    IF k > Len(found)
    THEN Plotted(p, NoError)
    ELSE LET r == ObserverPlotSpectra(os[lines[found[k]]], item, unit, PyNone, FALSE, p)
         IN IF Failed(r.err)
            THEN r
            ELSE PlotEach(os, lines, found, item, unit, k + 1, r.plt)

\* the name of the group (Node.name)
GroupName == PyStr("group")

\* the units, the y-limit, the title, the labels and the legend of the group's plot_spectra
GroupPlotLabels(os, lines, found, item, unit, ymax, p) ==
    LET pipelines == [k \in 1..Len(found) |-> GetPipeline(os[lines[found[k]]], item).ret[1]]
        limited == IF ymax # PyNone THEN [p EXCEPT !.ylim = <<ymax>>] ELSE p
        titled == IF IsInstance(item, {"int"})
                  THEN IF Cardinality({pipelines[k].name : k \in 1..Len(found)}) = 1
                       THEN [limited EXCEPT !.title = <<Title(GroupName, "name", pipelines[1].name)>>]
                       ELSE [limited EXCEPT !.title = <<Title(GroupName, "number", item)>>]
                  ELSE IF IsInstance(item, {"str"})
                  THEN [limited EXCEPT !.title = <<Title(GroupName, "name", item)>>]
                  ELSE limited
    IN Plotted([titled EXCEPT !.xlabel = <<"wavelength (nm)">>,
                              !.ylabel = <<UnitsOf(pipelines[1], unit)>>,
                              !.legend = TRUE],
               NoError)

\* a plot_spectra that opens the figure before it compares the kinds
GroupPlotSpectraFigureFirst(os, lines, item, unit, ymax, p) ==
    LET resolved == ResolveEach(os, lines, item, 1)
        found == resolved.found
        kinds == {GetPipeline(os[lines[found[k]]], item).ret[1].kind : k \in 1..Len(found)}
    IN IF Failed(resolved.err)
       THEN Plotted(p, resolved.err)
       ELSE IF Len(found) = 0
       THEN Plotted(p, Raise("IndexError", "format_replacement_index", 0, 0, "not found for any sight-line"))
       ELSE IF Cardinality(kinds) > 1
       THEN Plotted(PltFigure(p), Raise("ValueError", "different_types", 0, 0, ""))
       ELSE LET drawn == PlotEach(os, lines, found, item, unit, 1, PltFigure(p))
            IN IF Failed(drawn.err)
               THEN drawn
               ELSE GroupPlotLabels(os, lines, found, item, unit, ymax, drawn.plt)

\* Observer0DGroup.plot_spectra; the message of the not-found error is formatted with
\* one argument, a tuple, for two fields: format raises IndexError
GroupPlotSpectra(os, lines, item, unit, ymax, p) ==
    LET resolved == ResolveEach(os, lines, item, 1)
        found == resolved.found
        kinds == {GetPipeline(os[lines[found[k]]], item).ret[1].kind : k \in 1..Len(found)}
    IN IF Failed(resolved.err)
       THEN Plotted(p, resolved.err)
       ELSE IF Len(found) = 0
       THEN Plotted(p, Raise("IndexError", "format_replacement_index", 0, 0, "not found for any sight-line"))
       ELSE IF Cardinality(kinds) > 1
       THEN Plotted(p, Raise("ValueError", "different_types", 0, 0, ""))
       ELSE LET drawn == PlotEach(os, lines, found, item, unit, 1, PltFigure(p))
            IN IF Failed(drawn.err)
               THEN drawn
               ELSE GroupPlotLabels(os, lines, found, item, unit, ymax, drawn.plt)

-----------------------------------------------------------------------------
(* LineOfSightGroup and FibreOpticGroup: the membership *)

\* a setter that reparents each element as it validates it
SetSightLinesEager(gc, os, lines, value) ==
    IF ~IsInstance(value, {"list", "tuple"})
    THEN [obs |-> os, lines |-> lines, err |-> Raise("TypeError", "not_list_or_tuple", 0, 0, "sight_lines")]
    ELSE IF \E i \in 1..PyLen(value) : ObserverClass(value.items[i]) # RequiredClass(gc)
    THEN LET first == CHOOSE i \in 1..PyLen(value) :
                          /\ ObserverClass(value.items[i]) # RequiredClass(gc)
                          /\ \A j \in 1..(i - 1) : ObserverClass(value.items[j]) = RequiredClass(gc)
         IN [obs |-> [o \in Obs |-> IF \E j \in 1..(first - 1) : value.items[j] = o
                                    THEN [os[o] EXCEPT !.parent = "group"]
                                    ELSE os[o]],
             lines |-> lines,
             err |-> Raise("TypeError", "wrong_observer_class", 0, 0, value.items[first])]
    ELSE [obs |-> [o \in Obs |-> IF o \in Range(value.items) THEN [os[o] EXCEPT !.parent = "group"] ELSE os[o]],
          lines |-> value.items,
          err |-> NoError]

\* sight_lines (setter): value is a container of observers
SetSightLinesResult(gc, os, lines, value) ==
    IF ~IsInstance(value, {"list", "tuple"})
    THEN [obs |-> os, lines |-> lines, err |-> Raise("TypeError", "not_list_or_tuple", 0, 0, "sight_lines")]
    ELSE IF \E i \in 1..PyLen(value) : ObserverClass(value.items[i]) # RequiredClass(gc)
    THEN [obs |-> os, lines |-> lines,
          err |-> Raise("TypeError", "wrong_observer_class", 0, 0,
                        value.items[CHOOSE i \in 1..PyLen(value) :
                                        /\ ObserverClass(value.items[i]) # RequiredClass(gc)
                                        /\ \A j \in 1..(i - 1) : ObserverClass(value.items[j]) = RequiredClass(gc)])]
    ELSE [obs |-> [o \in Obs |-> IF o \in Range(value.items) THEN [os[o] EXCEPT !.parent = "group"] ELSE os[o]],
          lines |-> value.items,
          err |-> NoError]

\* an add_sight_line that puts the observer in front of the membership
AddSightLinePrepend(gc, os, lines, o) ==
    IF ObserverClass(o) # RequiredClass(gc)
    THEN [obs |-> os, lines |-> lines, err |-> Raise("TypeError", "wrong_observer_class", 0, 0, o)]
    ELSE [obs |-> [os EXCEPT ![o].parent = "group"], lines |-> <<o>> \o lines, err |-> NoError]

\* add_sight_line
AddSightLineResult(gc, os, lines, o) ==
    IF ObserverClass(o) # RequiredClass(gc)
    THEN [obs |-> os, lines |-> lines, err |-> Raise("TypeError", "wrong_observer_class", 0, 0, o)]
    ELSE [obs |-> [os EXCEPT ![o].parent = "group"], lines |-> Append(lines, o), err |-> NoError]

-----------------------------------------------------------------------------
(* The initial state: the observers of the pool, constructed, and an empty *)
(* group.                                                                  *)

InitialObs ==
    [o \in Obs |->
        CASE o = "s1" -> NewObserver(ObserverClass(o), Point3D(0, 0, 0), Vector3D(1, 0, 0),
                                     <<NewSpectralPipeline(1, "SpectralRadiancePipeline0D", PyNone)>>,
                                     PyStr("a"))
          [] o = "s2" -> NewObserver(ObserverClass(o), Point3D(1, 2, 3), Vector3D(0, 0, 1),
                                     <<UserPipeline(2, "PowerPipeline0D", PyStr("a"), PyBool(TRUE)),
                                       UserPipeline(3, "UserPipeline0D", PyStr("a"), PyNone)>>,
                                     PyStr("a"))
          [] o = "f1" -> NewObserver(ObserverClass(o), Point3D(0, 0, 0), Vector3D(0, 0, 1),
                                     <<UserPipeline(4, "RadiancePipeline0D", PyStr("a"), PyBool(TRUE)),
                                       UserPipeline(5, "SpectralPowerPipeline0D", PyStr("b"), PyBool(TRUE))>>,
                                     PyStr("b"))
          [] OTHER    -> NewObserver(ObserverClass(o), Point3D(1, 2, 3), Vector3D(1, 0, 0),
                                     <<NewSpectralPipeline(6, "SpectralRadiancePipeline0D", PyNone)>>,
                                     PyNone)]

\* the identities of the pipelines the pool's observers were constructed with
PoolIds == UNION {{InitialObs[o].pipelines[i].id : i \in 1..Len(InitialObs[o].pipelines)} : o \in Obs}
FirstFreeId == Cardinality(PoolIds) + 1

\* the record of a call: what was called on what with which argument, the exception
\* it raised, what it returned, the rotate_basis calls it made and the state it found
Call(op, target, prop, arg, err, ret, calls) ==
    [op |-> op, target |-> target, prop |-> prop, arg |-> arg, err |-> err, ret |-> ret,
     calls |-> calls, pre_lines |-> sight_lines, pre_obs |-> obs, pre_plt |-> plt]

\* Observer0DGroup.__init__
Init ==
    /\ group_class \in GroupClasses
    /\ sight_lines = <<>>
    /\ obs = InitialObs
    /\ next_id = FirstFreeId
    /\ nops = 0
    /\ plt = NoPlot
    /\ last = [op |-> "init", target |-> "group", prop |-> "", arg |-> PyNone, err |-> NoError,
               ret |-> <<>>, calls |-> <<>>, pre_lines |-> <<>>, pre_obs |-> InitialObs,
               pre_plt |-> NoPlot]

\* the sequences of length at most n over the set S
SeqsUpTo(S, n) == UNION {[1..k -> S] : k \in 0..n}

\* a group that was given its sight-lines: the state after group.sight_lines = members
InitPopulated ==
    /\ group_class \in GroupClasses
    /\ \E members \in SeqsUpTo({o \in Obs : ObserverClass(o) = RequiredClass(group_class)}, MaxMembers) :
          LET r == SetSightLinesResult(group_class, InitialObs, <<>>, PyList(members))
          IN /\ sight_lines = r.lines
             /\ obs = r.obs
             /\ last = [op |-> "init", target |-> "group", prop |-> "", arg |-> PyNone, err |-> NoError,
                        ret |-> <<>>, calls |-> <<>>, pre_lines |-> r.lines, pre_obs |-> r.obs,
                        pre_plt |-> NoPlot]
    /\ next_id = FirstFreeId
    /\ nops = 0
    /\ plt = NoPlot

\* the default of connect_pipelines: [(SpectralRadiancePipeline0D, None, None)]
DefaultProperties == <<[kind |-> "SpectralRadiancePipeline0D", name |-> PyNone, filter |-> PyNone]>>

\* the observers in the order of the pool, and the observers of a set in that order
ObsOrder == <<"s1", "s2", "f1", "f2">>
InOrder(S) == SelectSeq(ObsOrder, LAMBDA o : o \in S)

\* a group that was given its sight-lines, then, or not, the default pipelines, and
\* then, or not, observed: the state after group.sight_lines = members, after
\* group.connect_pipelines() and after group.observe()
InitObserved ==
    /\ group_class \in GroupClasses
    /\ \E members \in SeqsUpTo({o \in Obs : ObserverClass(o) = RequiredClass(group_class)}, MaxMembers) :
       \E connected, observed \in BOOLEAN :
          LET r == SetSightLinesResult(group_class, InitialObs, <<>>, PyList(members))
              c == IF connected
                   THEN ConnectPipelines(r.obs, r.lines, DefaultProperties, FirstFreeId)
                   ELSE [obs |-> r.obs, err |-> NoError, next |-> FirstFreeId]
              os == IF observed THEN GroupObserve(c.obs, r.lines, {}).obs ELSE c.obs
          IN /\ sight_lines = r.lines
             /\ obs = os
             /\ next_id = c.next
             /\ last = [op |-> "init", target |-> "group", prop |-> "", arg |-> PyNone, err |-> NoError,
                        ret |-> <<>>, calls |-> <<>>, pre_lines |-> r.lines, pre_obs |-> os,
                        pre_plt |-> NoPlot]
    /\ nops = 0
    /\ plt = NoPlot

-----------------------------------------------------------------------------
(* The arguments the calls are explored with *)

ContainerClasses == {"list", "tuple", "ndarray"}
Points == {Point3D(0, 0, 0), Point3D(1, 2, 3)}
Directions == {Vector3D(1, 0, 0), Vector3D(0, 0, 1), Vector3D(0, 0, -1), Vector3D(0, 0, 2)}
Names == {PyStr("a"), PyStr("b")}

\* single values for a bulk setter; for origin and direction one of them is of the wrong class
ScalarArgs(prop) ==
    CASE prop = "name" -> {PyStr("a")}
      [] prop = "origin" -> {Point3D(1, 2, 3), Vector3D(1, 0, 0)}
      [] prop = "direction" -> {Vector3D(0, 0, 1), Vector3D(0, 0, -1), Point3D(0, 0, 0)}
      [] prop \in FlagProps -> {PyBool(TRUE), PyBool(FALSE)}
      [] OTHER -> {PyInt(7)}

\* the j-th sample value of an attribute; consecutive samples differ
Sample(prop, j) ==
    CASE prop = "name" -> IF j % 2 = 1 THEN PyStr("b") ELSE PyStr("a")
      [] prop = "origin" -> IF j % 2 = 1 THEN Point3D(1, 2, 3) ELSE Point3D(0, 0, 0)
      [] prop = "direction" -> IF j % 2 = 1 THEN Vector3D(0, 0, 1) ELSE Vector3D(1, 0, 0)
      [] prop \in FlagProps -> PyBool(j % 2 = 1)
      [] OTHER -> PyInt(10 * j)

\* the first k sample values of an attribute
Samples(prop, k) == [i \in 1..k |-> Sample(prop, i)]

\* per-member values for a bulk setter of a group of n sight-lines: a list one item
\* short, as long and one item longer, a tuple as long, an array as long and one item longer
CollectionArgs(prop, n) ==
    {PyList(Samples(prop, k)) : k \in {m \in {n - 1, n, n + 1} : m >= 0}}
        \cup {PyTuple(Samples(prop, n))}
        \cup {NdArray(Samples(prop, k)) : k \in {n, n + 1}}

\* a value of a class that the setter of origin or direction rejects
WrongValue(prop) == IF prop = "origin" THEN Vector3D(1, 0, 0) ELSE Point3D(0, 0, 0)

\* per-member values for origin or direction of a group of n sight-lines, as a list and
\* as a tuple, with a value of the wrong class at one position
MixedArgs(prop, n) ==
    {PyContainer(c, [Samples(prop, n) EXCEPT ![k] = WrongValue(prop)]) : c \in {"list", "tuple"}, k \in 1..n}

\* the observers a group of class gc is offered: those of its class and one of the other
MemberPool(gc) ==
    {o \in Obs : ObserverClass(o) = RequiredClass(gc)}
        \cup {IF gc = "LineOfSightGroup" THEN "f1" ELSE "s1"}

\* the containers of observers given to the sight_lines setter
MemberArgs(gc) ==
    {PyContainer(c, members) : c \in ContainerClasses, members \in SeqsUpTo(MemberPool(gc), MaxMembers)}

\* the keys given to group[item] and to get_pipeline(item)
Keys == {PyInt(k) : k \in -1..MaxMembers} \cup {PyStr("a"), PyStr("b"), PyStr("c"), PyNone}

\* a filter function for the mono pipelines
FilterFunction == PyObj("SpectralFunction", <<>>, "filter", <<>>)

\* the (class, name, filter) triples given to connect_pipelines, and the lists of
\* different triples
Triples ==
    {[kind |-> "SpectralRadiancePipeline0D", name |-> PyStr("a"), filter |-> PyNone],
     [kind |-> "SpectralPowerPipeline0D", name |-> PyStr("b"), filter |-> FilterFunction],
     [kind |-> "RadiancePipeline0D", name |-> PyStr("a"), filter |-> FilterFunction],
     [kind |-> "PowerPipeline0D", name |-> PyNone, filter |-> PyNone],
     [kind |-> "UserPipeline0D", name |-> PyStr("a"), filter |-> PyNone]}
PropertyLists ==
    {properties \in SeqsUpTo(Triples, MaxProps) :
        /\ properties # <<>>
        /\ \A i, j \in 1..Len(properties) : i # j => properties[i] # properties[j]}

\* the keys given to observed_spectrum(item)
SpectrumKeys == {PyInt(0), PyInt(1), PyStr("a"), PyStr("b")}

\* the keys given to plot_spectra(item)
PlotKeys == {PyInt(0), PyInt(1), PyStr("a"), PyStr("b"), PyNone}

\* the unit and the ymax given to plot_spectra
PlotStyles == {[unit |-> PyStr("J"), ymax |-> PyNone],
               [unit |-> PyStr("ph"), ymax |-> PyInt(5)],
               [unit |-> PyStr("eV"), ymax |-> PyNone]}

\* the attributes a group of class gc forwards
GroupProps(gc) ==
    IF gc = "FibreOpticGroup" THEN ForwardedProps ELSE ForwardedProps \ FibreProps

-----------------------------------------------------------------------------
(* Actions *)

\* group.sight_lines = value
SetSightLines(value) ==
    LET r == SetSightLinesResult(group_class, obs, sight_lines, value)
    IN /\ sight_lines' = r.lines
       /\ obs' = r.obs
       /\ last' = Call("set_sight_lines", "group", "sight_lines", value, r.err, <<>>, <<>>)
       /\ UNCHANGED <<group_class, next_id, nops, plt>>

\* group.add_sight_line(o)
AddSightLine(o) ==
    /\ Len(sight_lines) < MaxMembers
    /\ LET r == AddSightLineResult(group_class, obs, sight_lines, o)
       IN /\ sight_lines' = r.lines
          /\ obs' = r.obs
          /\ last' = Call("add_sight_line", "group", "sight_lines", PyStr(o), r.err, <<>>, <<>>)
    /\ UNCHANGED <<group_class, next_id, nops, plt>>

\* group.names = value
SetNames(value) ==
    /\ nops < MaxOps
    /\ LET r == GroupSetNames(obs, sight_lines, value)
       IN /\ obs' = r.obs
          /\ last' = Call("group_set", "group", "name", value, r.err, <<>>, r.calls)
    /\ nops' = nops + 1
    /\ UNCHANGED <<group_class, sight_lines, next_id, plt>>

\* group.<prop> = value
SetAttr(prop, value) ==
    /\ nops < MaxOps
    /\ prop \in GroupProps(group_class)
    /\ LET r == GroupSetAttr(obs, sight_lines, prop, value)
       IN /\ obs' = r.obs
          /\ last' = Call("group_set", "group", prop, value, r.err, <<>>, r.calls)
    /\ nops' = nops + 1
    /\ UNCHANGED <<group_class, sight_lines, next_id, plt>>

\* observer.origin = value
SetOrigin(o, value) ==
    /\ nops < MaxOps
    /\ LET r == ObserverSetOrigin(obs[o], value)
       IN /\ obs' = [obs EXCEPT ![o] = r.ob]
          /\ last' = Call("observer_set", o, "origin", value, r.err, <<>>, r.calls)
    /\ nops' = nops + 1
    /\ UNCHANGED <<group_class, sight_lines, next_id, plt>>

\* observer.direction = value
SetDirection(o, value) ==
    /\ nops < MaxOps
    /\ LET r == ObserverSetDirection(obs[o], value)
       IN /\ obs' = [obs EXCEPT ![o] = r.ob]
          /\ last' = Call("observer_set", o, "direction", value, r.err, <<>>, r.calls)
    /\ nops' = nops + 1
    /\ UNCHANGED <<group_class, sight_lines, next_id, plt>>

\* group[item]
GetItem(item) ==
    /\ LET r == GroupGetItem(obs, sight_lines, item)
       IN last' = Call("getitem", "group", "", item, r.err, r.ret, <<>>)
    /\ UNCHANGED <<group_class, sight_lines, obs, next_id, nops, plt>>

\* observer.display_progress = value, observer.accumulate = value
SetFlag(o, prop, value) ==
    /\ nops < MaxOps
    /\ prop \in FlagProps
    /\ LET r == ObserverSet(obs[o], prop, value)
       IN /\ obs' = [obs EXCEPT ![o] = r.ob]
          /\ last' = Call("observer_set", o, prop, value, r.err, <<>>, r.calls)
    /\ nops' = nops + 1
    /\ UNCHANGED <<group_class, sight_lines, next_id, plt>>

\* observer.display_progress, observer.accumulate
GetFlag(o, prop) ==
    /\ prop \in FlagProps
    /\ last' = Call("observer_get", o, prop, PyNone, NoError, <<ObserverGet(obs[o], prop)>>, <<>>)
    /\ UNCHANGED <<group_class, sight_lines, obs, next_id, nops, plt>>

\* observer.get_pipeline(item)
GetPipelineCall(o, item) ==
    /\ LET r == GetPipeline(obs[o], item)
       IN last' = Call("get_pipeline", o, "", item, r.err, r.ret, <<>>)
    /\ UNCHANGED <<group_class, sight_lines, obs, next_id, nops, plt>>

\* group.connect_pipelines(properties)
Connect(properties) ==
    /\ nops < MaxConnects
    /\ LET r == ConnectPipelines(obs, sight_lines, properties, next_id)
       IN /\ obs' = r.obs
          /\ next_id' = r.next
          /\ last' = Call("connect_pipelines", "group", "pipelines", PyList(properties), r.err, <<>>, <<>>)
    /\ nops' = nops + 1
    /\ UNCHANGED <<group_class, sight_lines, plt>>

\* group.observe(); the observation of the observers in failing raises
Observe(failing) ==
    /\ nops < MaxOps + MaxConnects
    /\ LET r == GroupObserve(obs, sight_lines, failing)
       IN /\ obs' = r.obs
          /\ last' = Call("observe", "group", "", PyList(InOrder(failing)), r.err, <<>>, r.calls)
    /\ nops' = nops + 1
    /\ UNCHANGED <<group_class, sight_lines, next_id, plt>>

\* observer.observe(); fails says that the observation raises
ObserveOne(o, fails) ==
    /\ nops < MaxOps + MaxConnects
    /\ LET r == ObserverObserve(o, obs[o], fails)
       IN /\ obs' = [obs EXCEPT ![o] = r.ob]
          /\ last' = Call("observer_observe", o, "", PyBool(fails), r.err, <<>>, r.calls)
    /\ nops' = nops + 1
    /\ UNCHANGED <<group_class, sight_lines, next_id, plt>>

\* observer.observed_spectrum(item)
ObservedSpectrumCall(o, item) ==
    /\ LET r == ObservedSpectrum(obs[o], item)
       IN last' = Call("observed_spectrum", o, "", item, r.err, r.ret, <<>>)
    /\ UNCHANGED <<group_class, sight_lines, obs, next_id, nops, plt>>

\* group.plot_spectra(item, unit, ymax)
PlotGroup(item, unit, ymax) ==
    /\ nops < MaxOps
    /\ LET r == GroupPlotSpectra(obs, sight_lines, item, unit, ymax, plt)
       IN /\ plt' = r.plt
          /\ last' = Call("plot_spectra", "group", "", PyTuple(<<item, unit, ymax>>), r.err, <<>>, <<>>)
    /\ nops' = nops + 1
    /\ UNCHANGED <<group_class, sight_lines, obs, next_id>>

\* observer.plot_spectra(item, unit, ymax, extras)
PlotObserver(o, item, unit, ymax, extras) ==
    /\ nops < MaxOps
    /\ LET r == ObserverPlotSpectra(obs[o], item, unit, ymax, extras, plt)
       IN /\ plt' = r.plt
          /\ last' = Call("plot_spectra", o, "", PyTuple(<<item, unit, ymax, PyBool(extras)>>),
                          r.err, <<>>, <<>>)
    /\ nops' = nops + 1
    /\ UNCHANGED <<group_class, sight_lines, obs, next_id>>

-----------------------------------------------------------------------------
(* Specifications *)

\* the membership calls
NextMembers ==
    \/ \E value \in MemberArgs(group_class) : SetSightLines(value)
    \/ \E o \in MemberPool(group_class) : AddSightLine(o)

\* the bulk setters
NextBulk ==
    \/ \E value \in ScalarArgs("name") \cup CollectionArgs("name", Len(sight_lines)) : SetNames(value)
    \/ \E prop \in ForwardedProps : \E value \in ScalarArgs(prop) : SetAttr(prop, value)
    \/ \E prop \in ForwardedProps : \E value \in CollectionArgs(prop, Len(sight_lines)) : SetAttr(prop, value)

\* the placement of the observers
NextGeom ==
    \/ \E o \in Obs, value \in Points \cup {Vector3D(1, 0, 0)} : SetOrigin(o, value)
    \/ \E o \in Obs, value \in Directions \cup {Point3D(0, 0, 0)} : SetDirection(o, value)
    \/ \E prop \in GeometryProps : \E value \in ScalarArgs(prop) : SetAttr(prop, value)
    \/ \E prop \in GeometryProps : \E value \in CollectionArgs(prop, Len(sight_lines)) : SetAttr(prop, value)
    \/ \E prop \in GeometryProps : \E value \in MixedArgs(prop, Len(sight_lines)) : SetAttr(prop, value)

\* the lookups
NextLookup ==
    \/ \E c \in {"list", "tuple"} : \E names \in [1..Len(sight_lines) -> Names] : SetNames(PyContainer(c, names))
    \/ \E item \in Keys : GetItem(item)
    \/ \E o \in Obs, item \in Keys : GetPipelineCall(o, item)

\* the pipelines
NextPipes == \E properties \in PropertyLists : Connect(properties)

\* the observations and the spectra read after them; connect_pipelines() is the call
\* with the default properties
NextObserve ==
    \/ \E failing \in {{}} \cup {{o} : o \in Range(sight_lines)} : Observe(failing)
    \/ \E o \in MemberPool(group_class) : ObserveOne(o, FALSE)
    \/ Connect(DefaultProperties)
    \/ \E o \in Obs, item \in SpectrumKeys : ObservedSpectrumCall(o, item)

\* display_progress and accumulate of an observer
NextFlags ==
    \/ \E o \in Obs, prop \in FlagProps, value \in {PyBool(TRUE), PyBool(FALSE)} : SetFlag(o, prop, value)
    \/ \E o \in Obs, prop \in FlagProps : GetFlag(o, prop)

\* the plots
NextPlot ==
    \/ \E item \in PlotKeys, style \in PlotStyles : PlotGroup(item, style.unit, style.ymax)
    \/ \E o \in MemberPool(group_class), item \in {PyInt(0), PyStr("b")}, style \in PlotStyles :
           \E extras \in BOOLEAN : PlotObserver(o, item, style.unit, style.ymax, extras)

Next == NextMembers \/ NextBulk \/ NextGeom \/ NextLookup \/ NextPipes \/ NextObserve \/ NextPlot
            \/ NextFlags

Spec == Init /\ [][Next]_vars
SpecMembers == Init /\ [][NextMembers]_vars
SpecBulk == InitPopulated /\ [][NextBulk]_vars
SpecGeom == InitPopulated /\ [][NextGeom]_vars
SpecLookup == InitPopulated /\ [][NextLookup]_vars
SpecPipes == InitPopulated /\ [][NextPipes]_vars
SpecObserve == InitObserved /\ [][NextObserve]_vars
SpecPlot == InitObserved /\ [][NextPlot]_vars
SpecFlags == InitPopulated /\ [][NextFlags]_vars

-----------------------------------------------------------------------------
(* Properties of the bulk setters, checked under SpecBulk *)

\* a value of the class the attribute takes
ValidValue(prop, value) ==
    CASE prop = "origin" -> value.cls = "Point3D"
      [] prop = "direction" -> value.cls = "Vector3D"
      [] prop \in FlagProps -> value.cls = "bool"
      [] OTHER -> value.cls = "int"

\* the pipeline kinds that have the attribute
KindsWith(prop) == IF prop = "display_progress" THEN SpectralKinds ELSE SupportedKinds

\* what an observer reports for display_progress or accumulate once value was written to it
FlagsAfter(ob, prop, value) ==
    PyList([j \in 1..Len(ob.pipelines) |->
               IF ob.pipelines[j].kind \in KindsWith(prop) THEN value ELSE PyNone])

\* the last call assigned one valid value to a forwarded attribute and returned
BroadcastDone ==
    /\ last.op = "group_set"
    /\ last.prop \in ForwardedProps
    /\ last.arg.cls \notin ContainerClasses
    /\ ValidValue(last.prop, last.arg)
    /\ ~Failed(last.err)

\* C1 as stated: after G.<prop> = v for a valid single value v, G.<prop> is a sequence of
\* length len(G) whose every element equals v, for every forwarded attribute.
C1_EveryElementEqualsValue ==
    BroadcastDone =>
        GroupGet(obs, sight_lines, last.prop) = PyList([i \in 1..Len(sight_lines) |-> last.arg])

\* C1 amended: after G.<prop> = v for a valid single value v, G.<prop> has length len(G);
\* for an attribute other than display_progress and accumulate every element equals v;
\* for display_progress and accumulate the element of a member is a list with one entry
\* per pipeline of the member, v for a pipeline whose kind has the attribute and None
\* for the others.
C1_Broadcast ==
    BroadcastDone =>
        LET read == GroupGet(obs, sight_lines, last.prop)
        IN /\ PyLen(read) = Len(sight_lines)
           /\ \A i \in 1..Len(sight_lines) :
                 IF last.prop \in FlagProps
                 THEN read.items[i] = FlagsAfter(obs[sight_lines[i]], last.prop, last.arg)
                 ELSE read.items[i] = last.arg

\* a broadcast of accumulate to two different members, one of them with a pipeline of a
\* kind without the attribute
C1_Witness ==
    /\ BroadcastDone
    /\ last.prop = "accumulate"
    /\ Len(sight_lines) = 2
    /\ sight_lines[1] # sight_lines[2]
    /\ \E i \in 1..2 : PyNone \in Range(GroupGet(obs, sight_lines, "accumulate").items[i].items)

\* the last call assigned a collection, as long as the membership, of valid values to a
\* forwarded attribute and returned
PositionalDone ==
    /\ last.op = "group_set"
    /\ last.prop \in ForwardedProps
    /\ last.arg.cls \in CollectionClasses(last.prop)
    /\ PyLen(last.arg) = Len(sight_lines)
    /\ \A i \in 1..PyLen(last.arg) : ValidValue(last.prop, last.arg.items[i])
    /\ ~Failed(last.err)

\* C2 as stated: after G.<prop> = S for a collection S of valid values with
\* len(S) = len(G), the i-th element of G.<prop> equals S[i], for every forwarded attribute.
C2_ElementEqualsItem ==
    PositionalDone =>
        \A i \in 1..Len(sight_lines) :
            GroupGet(obs, sight_lines, last.prop).items[i] = last.arg.items[i]

\* the last position of the membership that holds the observer of position i
LastPosition(lines, i) == CHOOSE k \in i..Len(lines) :
                              /\ lines[k] = lines[i]
                              /\ \A m \in (k + 1)..Len(lines) : lines[m] # lines[i]

\* C2 amended: after G.<prop> = S for a collection S (a list or a tuple, or for an attribute
\* other than origin and direction an array) of valid values with len(S) = len(G), the
\* i-th element of G.<prop> is determined by S[k], k being the last position of the
\* membership that holds the observer of position i (k = i when no observer is a member
\* twice): it equals S[k] for an attribute other than display_progress and accumulate, and
\* for these two it is a list with one entry per pipeline of the member, S[k] for a
\* pipeline whose kind has the attribute and None for the others.
C2_Positional ==
    PositionalDone =>
        LET read == GroupGet(obs, sight_lines, last.prop)
        IN /\ PyLen(read) = Len(sight_lines)
           /\ \A i \in 1..Len(sight_lines) :
                 LET item == last.arg.items[LastPosition(sight_lines, i)]
                 IN IF last.prop \in FlagProps
                    THEN read.items[i] = FlagsAfter(obs[sight_lines[i]], last.prop, item)
                    ELSE read.items[i] = item

\* an array of two different values assigned to pixel_samples of two different members
C2_Witness ==
    /\ PositionalDone
    /\ last.prop = "pixel_samples"
    /\ last.arg.cls = "ndarray"
    /\ Len(sight_lines) = 2
    /\ sight_lines[1] # sight_lines[2]
    /\ last.arg.items[1] # last.arg.items[2]

\* the last call raised the length-mismatch error, reporting the length of the collection
\* and the member count, and changed no observer
LengthMismatchRaised ==
    /\ last.err.type = "ValueError"
    /\ last.err.what = "length_mismatch"
    /\ last.err.a = PyLen(last.arg)
    /\ last.err.b = Len(sight_lines)
    /\ sight_lines = last.pre_lines
    /\ obs = last.pre_obs

\* C3 as stated: every bulk setter (names and every forwarded attribute) given an ordered
\* collection (a list, a tuple or an array) whose length differs from len(G) raises the
\* length-mismatch error, which reports both lengths, and changes no member.
C3_AnyCollectionLengthMismatch ==
    (/\ last.op = "group_set"
     /\ last.prop \in ForwardedProps \cup {"name"}
     /\ last.arg.cls \in ContainerClasses
     /\ PyLen(last.arg) # Len(last.pre_lines)) => LengthMismatchRaised

\* the last call gave a bulk setter a collection of a class the setter takes for one,
\* whose length is not the member count
WrongLengthGiven ==
    /\ last.op = "group_set"
    /\ last.prop \in ForwardedProps \cup {"name"}
    /\ last.arg.cls \in CollectionClasses(last.prop)
    /\ PyLen(last.arg) # Len(last.pre_lines)

\* C3 amended: a bulk setter (names and every forwarded attribute) given a list or a
\* tuple, or for the attributes other than names, origin and direction an array, whose
\* length differs from len(G) raises the length-mismatch ValueError, which reports the
\* length of the collection and the member count, and changes no observer.
C3_LengthMismatch == WrongLengthGiven => LengthMismatchRaised

\* an array of three values given to a group of two for an attribute the observers store
C3_Witness ==
    /\ WrongLengthGiven
    /\ last.prop \in TracingProps
    /\ last.arg.cls = "ndarray"
    /\ PyLen(last.arg) = 3
    /\ Len(sight_lines) = 2

-----------------------------------------------------------------------------
(* Properties of the placement, checked under SpecGeom *)

\* u and v are colinear: they span no plane
Colinear(u, v) == Cross(u.num, v.num) = <<0, 0, 0>>

\* C4: in every state reached by construction and by assignments of origin and
\* direction, to an observer or through a group, every observer's transform is
\* translate(origin) * rotate_basis(direction, up) of the origin and the direction it
\* stores, up being the up-vector selected for that direction.
C4_TransformFollowsOriginAndDirection ==
    \A o \in Obs :
        obs[o].transform =
            Compose(Translate(obs[o].origin.num[1], obs[o].origin.num[2], obs[o].origin.num[3]),
                    RotateBasis(obs[o].direction, UpVector(obs[o].direction)))

\* C5: whenever a setter computes a transform, the up-vector it passes to rotate_basis
\* is (1, 0, 0) for a direction parallel to (0, 0, 1) and (0, 0, 1) for any other, so that
\* it is never colinear with the direction.
C5_UpVectorNeverColinear ==
    last.prop \in GeometryProps =>
        \A i \in 1..Len(last.calls) :
            /\ last.calls[i].up = IF Colinear(last.calls[i].forward, Vector3D(0, 0, 1))
                                  THEN Vector3D(1, 0, 0)
                                  ELSE Vector3D(0, 0, 1)
            /\ ~Colinear(last.calls[i].up, last.calls[i].forward)

-----------------------------------------------------------------------------
(* Properties of the lookups, checked under SpecLookup *)

\* the names of the elements a lookup goes through: the group's sight-lines or the
\* observer's pipelines
LookedUpNames ==
    IF last.op = "getitem"
    THEN [i \in 1..Len(sight_lines) |-> obs[sight_lines[i]].name]
    ELSE [i \in 1..Len(obs[last.target].pipelines) |-> obs[last.target].pipelines[i].name]

\* the elements themselves
LookedUpElements ==
    IF last.op = "getitem" THEN sight_lines ELSE obs[last.target].pipelines

\* the positions of the elements named as the key of the last lookup
MatchingPositions == {i \in 1..Len(LookedUpNames) : LookedUpNames[i] = last.arg}

\* the last call looked a name up
NameLookedUp == last.op \in {"getitem", "get_pipeline"} /\ last.arg.cls = "str"

\* C6: group[name] and observer.get_pipeline(name) return the element of that name when
\* exactly one has it, raise the not-found ValueError when none has it, and raise the
\* ValueError that reports the number of matches when several have it; they never return
\* one of several elements of the same name.
C6_LookupByName ==
    NameLookedUp =>
        /\ Cardinality(MatchingPositions) = 1 =>
              /\ ~Failed(last.err)
              /\ \E i \in MatchingPositions : last.ret = <<LookedUpElements[i]>>
        /\ Cardinality(MatchingPositions) = 0 =>
              /\ last.err.type = "ValueError"
              /\ last.err.what = "not_found"
              /\ last.ret = <<>>
        /\ Cardinality(MatchingPositions) >= 2 =>
              /\ last.err.type = "ValueError"
              /\ last.err.what = "found_several"
              /\ last.err.a = Cardinality(MatchingPositions)
              /\ last.ret = <<>>

\* group[name] with two sight-lines of that name
C6_Witness ==
    /\ NameLookedUp
    /\ last.op = "getitem"
    /\ Cardinality(MatchingPositions) = 2
    /\ sight_lines[1] # sight_lines[2]

-----------------------------------------------------------------------------
(* Properties of the membership, checked under SpecMembers *)

\* the last call assigned a list or tuple of observers to sight_lines
SightLinesAssigned == last.op = "set_sight_lines" /\ last.arg.cls \in {"list", "tuple"}

\* the observers of the assigned collection that are not of the class the group requires
Intruders == {o \in Range(last.arg.items) : ObserverClass(o) # RequiredClass(group_class)}

C8_AddSightLine ==
    last.op = "add_sight_line" =>
        LET s == last.arg.str
        IN IF ObserverClass(s) = RequiredClass(group_class)
           THEN /\ ~Failed(last.err)
                /\ obs[s].parent = "group"
                /\ sight_lines = last.pre_lines \o <<s>>
                /\ Len(sight_lines) = Len(last.pre_lines) + 1
           ELSE /\ last.err.type = "TypeError"
                /\ sight_lines = last.pre_lines
                /\ obs[s].parent = last.pre_obs[s].parent

\* an observer added to a group that had another member
C8_Witness ==
    /\ last.op = "add_sight_line"
    /\ ~Failed(last.err)
    /\ Len(last.pre_lines) = 1
    /\ last.pre_lines[1] # last.arg.str
    /\ last.pre_obs[last.arg.str].parent = "None"

-----------------------------------------------------------------------------
(* Properties of connect_pipelines, checked under SpecPipes *)

\* the identities of the pipelines of an observer
PipelineIds(ob) == {ob.pipelines[j].id : j \in 1..Len(ob.pipelines)}

\* C9: after connect_pipelines(properties) returned, every member has exactly
\* len(properties) pipelines, the j-th of the kind and name of the j-th triple and not
\* accumulating; none of them is a pipeline an observer had before, and no two members
\* share a pipeline.
C9_ConnectedPipelines ==
    (last.op = "connect_pipelines" /\ ~Failed(last.err)) =>
        LET properties == last.arg.items
        IN /\ \A o \in Range(sight_lines) :
                 /\ Len(obs[o].pipelines) = Len(properties)
                 /\ \A j \in 1..Len(properties) :
                       /\ obs[o].pipelines[j].kind = properties[j].kind
                       /\ obs[o].pipelines[j].name = properties[j].name
                       /\ obs[o].pipelines[j].accumulate = PyBool(FALSE)
                 /\ \A before \in Obs : PipelineIds(obs[o]) \cap PipelineIds(last.pre_obs[before]) = {}
           /\ \A o1, o2 \in Range(sight_lines) :
                 o1 # o2 => PipelineIds(obs[o1]) \cap PipelineIds(obs[o2]) = {}

\* two triples connected to two different members
C9_Witness ==
    /\ last.op = "connect_pipelines"
    /\ ~Failed(last.err)
    /\ PyLen(last.arg) = 2
    /\ last.arg.items[1].kind # last.arg.items[2].kind
    /\ Len(sight_lines) = 2
    /\ sight_lines[1] # sight_lines[2]

\* the first class of the properties that is none of the four supported ones
FirstUnsupported(properties) ==
    properties[CHOOSE j \in 1..Len(properties) :
                   /\ properties[j].kind \notin SupportedKinds
                   /\ \A k \in 1..(j - 1) : properties[k].kind \in SupportedKinds].kind

\* C10: connect_pipelines with a class other than the four supported ones in its
\* properties raises the ValueError that names the class, whatever the number of members,
\* and leaves every observer's pipelines as they were.
C10_UnsupportedClassRaises ==
    (/\ last.op = "connect_pipelines"
     /\ \E j \in 1..PyLen(last.arg) : last.arg.items[j].kind \notin SupportedKinds) =>
        /\ last.err.type = "ValueError"
        /\ last.err.what = "unsupported_pipeline_class"
        /\ last.err.key = FirstUnsupported(last.arg.items)
        /\ \A o \in Obs : obs[o].pipelines = last.pre_obs[o].pipelines

-----------------------------------------------------------------------------
(* Properties of the observations, checked under SpecObserve *)

\* the position of the first member whose observation raises in the last call of
\* group.observe(), 0 when none does
FirstFailing ==
    LET F == {i \in 1..Len(sight_lines) : sight_lines[i] \in Range(last.arg.items)}
    IN IF F = {} THEN 0 ELSE CHOOSE i \in F : \A j \in F : i <= j

\* the number of members group.observe() starts to observe
Started == IF FirstFailing = 0 THEN Len(sight_lines) ELSE FirstFailing

\* every pipeline of the observer holds results
HasResults(ob) == \A j \in 1..Len(ob.pipelines) : ob.pipelines[j].samples # PyNone

\* C11: group.observe() calls observe() of each member once, in membership order, one
\* call returning before the next starts; when the call on member k raises, the
\* exception reaches the caller as it was raised, no member after k is observed and the
\* members before k keep the results of their observation.
C11_ObserveInOrder ==
    last.op = "observe" =>
        /\ Len(last.calls) = 2 * Started
        /\ \A i \in 1..Started :
              /\ last.calls[2 * i - 1] = ObserveEvent(sight_lines[i], "started")
              /\ last.calls[2 * i] = ObserveEvent(sight_lines[i],
                                                  IF i = FirstFailing THEN "raised" ELSE "returned")
        /\ IF FirstFailing = 0
           THEN ~Failed(last.err)
           ELSE last.err = Raise("Exception", "observe", 0, 0, sight_lines[FirstFailing])
        /\ \A i \in 1..Started : i # FirstFailing => HasResults(obs[sight_lines[i]])
        /\ \A o \in Obs :
              (\A i \in 1..Started : i = FirstFailing \/ sight_lines[i] # o) => obs[o] = last.pre_obs[o]

\* the observation of the second of two members raised after the first, which had no
\* results, was observed
C11_Witness ==
    /\ last.op = "observe"
    /\ Len(sight_lines) = 2
    /\ FirstFailing = 2
    /\ sight_lines[1] # sight_lines[2]
    /\ ~HasResults(last.pre_obs[sight_lines[1]])
    /\ HasResults(obs[sight_lines[1]])

-----------------------------------------------------------------------------
(* Properties of the plots, checked under SpecPlot *)

\* the last call was group.plot_spectra(item, ...) with a number or a name for item
GroupPlotted == last.op = "plot_spectra" /\ last.target = "group" /\ last.arg.items[1].cls \in {"int", "str"}

\* the item, the unit and the ymax of the last plot_spectra
PlotItem == last.arg.items[1]
PlotUnit == last.arg.items[2]
PlotYmax == last.arg.items[3]

\* the positions of the members that have the pipeline asked for, in order
Resolving == SelectSeq([i \in 1..Len(sight_lines) |-> i],
                       LAMBDA i : ~Failed(GetPipeline(obs[sight_lines[i]], PlotItem).err))

\* the pipeline asked for, of the member at position i
Resolved(i) == GetPipeline(obs[sight_lines[i]], PlotItem).ret[1]

\* C12: group.plot_spectra(item) passes over the members whose get_pipeline(item) fails
\* (no such number, no such name, several of that name) and plots none of them; when it
\* passes over every member, the group being empty included, it raises the ValueError
\* that reports that the pipeline was not found for any sight-line, and plots nothing.
C12_SkipsMembersWithoutPipeline ==
    GroupPlotted =>
        /\ plt # last.pre_plt =>
               /\ Len(plt.lines) <= Len(Resolving)
               /\ \A k \in 1..Len(plt.lines) : plt.lines[k].label = obs[sight_lines[Resolving[k]]].name
        /\ Len(Resolving) = 0 =>
               /\ last.err.type = "ValueError"
               /\ plt = last.pre_plt

\* C13: group.plot_spectra(item) raises whenever the pipelines found for item in the
\* members it does not pass over are not all of one concrete kind, and it does so
\* before it opens a figure or plots the spectrum of a member.
C13_MixedKindsRejected ==
    (GroupPlotted /\ Cardinality({Resolved(Resolving[k]).kind : k \in 1..Len(Resolving)}) > 1) =>
        /\ last.err.type = "ValueError"
        /\ last.err.what = "different_types"
        /\ plt = last.pre_plt

\* two different members whose first pipelines are of different kinds
C13_Witness ==
    /\ GroupPlotted
    /\ PlotItem = PyInt(0)
    /\ Len(Resolving) = 2
    /\ sight_lines[1] # sight_lines[2]
    /\ Resolved(1).kind # Resolved(2).kind

\* the label of each kind
LabelOfKind(kind) ==
    CASE kind = "RadiancePipeline0D" -> "/s/m^2/str"
      [] kind = "PowerPipeline0D" -> "/s"
      [] kind = "SpectralRadiancePipeline0D" -> "/s/m^2/str/nm"
      [] kind = "SpectralPowerPipeline0D" -> "/s/nm"
      [] OTHER -> ""

\* the last call was observer.plot_spectra(item, unit, ymax, extras) with unit 'J' or 'ph'
\* for a pipeline of which a spectrum was observed
ObserverPlotted ==
    /\ last.op = "plot_spectra"
    /\ last.target \in Obs
    /\ PlotUnit \in {PyStr("J"), PyStr("ph")}
    /\ ~Failed(ObservedSpectrum(obs[last.target], PlotItem).err)

\* the last call was group.plot_spectra with unit 'J' or 'ph' for pipelines of one kind,
\* of each of which a spectrum was observed
GroupPlottedSpectra ==
    /\ GroupPlotted
    /\ PlotUnit \in {PyStr("J"), PyStr("ph")}
    /\ Len(Resolving) > 0
    /\ Cardinality({Resolved(Resolving[k]).kind : k \in 1..Len(Resolving)}) = 1
    /\ \A k \in 1..Len(Resolving) :
          ~Failed(ObservedSpectrum(obs[sight_lines[Resolving[k]]], PlotItem).err)

\* C14: the label of the y axis that plot_spectra, of a group and of an observer, sets
\* carries the unit of the kind of the pipeline: unit/s/m^2/str for a radiance pipeline,
\* unit/s for a power pipeline, unit/s/m^2/str/nm for a spectral radiance pipeline and
\* unit/s/nm for a spectral power pipeline; a radiance pipeline never gets the label of
\* the power kind it derives from.
C14_UnitLabelOfKind ==
    /\ GroupPlottedSpectra =>
           plt.ylabel = <<[unit |-> PlotUnit, per |-> LabelOfKind(Resolved(Resolving[1]).kind)]>>
    /\ (ObserverPlotted /\ last.arg.items[4] = PyBool(TRUE)) =>
           plt.ylabel = <<[unit |-> PlotUnit,
                           per |-> LabelOfKind(GetPipeline(obs[last.target], PlotItem).ret[1].kind)]>>

\* C16: observer.plot_spectra(item, unit, ymax, extras) with unit 'J' or 'ph' for a
\* pipeline that has results returns normally; with extras=True it sets the title, the
\* two axis labels and, when ymax is given, the y-limit; with extras=False it sets none
\* of them.
C16_ExtrasSetLabels ==
    ObserverPlotted =>
        /\ ~Failed(last.err)
        /\ IF last.arg.items[4] = PyBool(TRUE)
           THEN /\ plt.title # <<>>
                /\ plt.xlabel # <<>>
                /\ plt.ylabel # <<>>
                /\ PlotYmax # PyNone => plt.ylim = <<PlotYmax>>
           ELSE /\ plt.title = last.pre_plt.title
                /\ plt.xlabel = last.pre_plt.xlabel
                /\ plt.ylabel = last.pre_plt.ylabel
                /\ plt.ylim = last.pre_plt.ylim

-----------------------------------------------------------------------------
(* Properties of display_progress and accumulate of an observer, checked    *)
(* under SpecFlags                                                          *)

\* C15: reading display_progress or accumulate of an observer returns one entry per
\* pipeline, in the order of the pipelines: the value the pipeline has when its kind has
\* the attribute, None otherwise.  Writing a value sets the attribute of every pipeline
\* whose kind has it, changes no pipeline of another kind and never raises.
C15_ObserverFlags ==
    /\ (last.op = "observer_get" /\ last.prop \in FlagProps) =>
           LET pipelines == obs[last.target].pipelines
           IN last.ret = <<PyList([j \in 1..Len(pipelines) |->
                                      IF pipelines[j].kind \in KindsWith(last.prop)
                                      THEN pipelines[j][last.prop]
                                      ELSE PyNone])>>
    /\ (last.op = "observer_set" /\ last.prop \in FlagProps) =>
           LET before == last.pre_obs[last.target].pipelines
               after == obs[last.target].pipelines
           IN /\ ~Failed(last.err)
              /\ Len(after) = Len(before)
              /\ \A j \in 1..Len(before) :
                    IF before[j].kind \in KindsWith(last.prop)
                    THEN after[j] = [before[j] EXCEPT ![last.prop] = last.arg]
                    ELSE after[j] = before[j]
              /\ \A o \in Obs \ {last.target} : obs[o] = last.pre_obs[o]

\* accumulate written to an observer that has a pipeline of a kind with the attribute,
\* which held another value, and a pipeline of a kind without it
C15_Witness ==
    /\ last.op = "observer_set"
    /\ last.prop = "accumulate"
    /\ \E j, k \in 1..Len(obs[last.target].pipelines) :
          /\ obs[last.target].pipelines[j].kind \in SupportedKinds
          /\ last.pre_obs[last.target].pipelines[j].accumulate # last.arg
          /\ obs[last.target].pipelines[k].kind \notin SupportedKinds

-----------------------------------------------------------------------------
(* Properties of observed_spectrum, checked under SpecObserve *)

\* the last call was observed_spectrum and its item names a spectrally-resolved pipeline
SpectralAsked ==
    /\ last.op = "observed_spectrum"
    /\ ~Failed(GetPipeline(obs[last.target], last.arg).err)
    /\ GetPipeline(obs[last.target], last.arg).ret[1].kind \in SpectralKinds

\* the pipeline the last call of observed_spectrum asked for
AskedPipeline == GetPipeline(obs[last.target], last.arg).ret[1]

\* the last call completed an observe() on the observer o
ObserveCompleted(o) ==
    \E i \in 1..Len(last.calls) : last.calls[i] = ObserveEvent(o, "returned")

\* C17: observed_spectrum on a spectrally-resolved pipeline without recorded samples
\* raises the ValueError of a spectrum that was not observed and returns nothing; with
\* samples it returns a spectrum.  A pipeline attached by connect_pipelines has no
\* samples, a pipeline gets samples only by an observe() of its observer that completes,
\* and after such an observe() every pipeline of the observer has samples.
C17_SpectrumNeedsSamples ==
    /\ SpectralAsked =>
           IF AskedPipeline.samples = PyNone
           THEN /\ last.err.type = "ValueError"
                /\ last.err.what = "no_spectrum_observed"
                /\ last.ret = <<>>
           ELSE /\ ~Failed(last.err)
                /\ Len(last.ret) = 1
                /\ last.ret[1].cls = "Spectrum"
    /\ (last.op = "connect_pipelines" /\ ~Failed(last.err)) =>
           \A i \in 1..Len(sight_lines) : \A j \in 1..Len(obs[sight_lines[i]].pipelines) :
              obs[sight_lines[i]].pipelines[j].samples = PyNone
    /\ \A o \in Obs :
          /\ ObserveCompleted(o) => HasResults(obs[o])
          /\ \A j \in 1..Len(obs[o].pipelines) :
                obs[o].pipelines[j].samples # PyNone =>
                   \/ ObserveCompleted(o)
                   \/ \E k \in 1..Len(last.pre_obs[o].pipelines) :
                         /\ last.pre_obs[o].pipelines[k].id = obs[o].pipelines[j].id
                         /\ last.pre_obs[o].pipelines[k].samples # PyNone

\* observed_spectrum returned a spectrum of a spectrally-resolved pipeline that a call of
\* connect_pipelines attached (its identity is beyond those of the pipelines of the
\* initial state), hence of a pipeline that an observe() gave its samples
C17_Witness ==
    /\ SpectralAsked
    /\ ~Failed(last.err)
    /\ AskedPipeline.id >= FirstFreeId + Len(sight_lines) * Len(DefaultProperties)

-----------------------------------------------------------------------------
(* Properties of the scene-graph parents, checked under SpecMembers *)

\* C18: the observers whose parent is the group are the members of the group: every
\* member has the group as parent, and an observer that a later assignment of
\* sight_lines removed from the membership no longer has it.
C18_ParentsAreMembers ==
    {o \in Obs : obs[o].parent = "group"} = Range(sight_lines)

-----------------------------------------------------------------------------
(* Properties of a positional assignment of origin or direction that fails  *)
(* part of the way, checked under SpecGeom                                  *)

\* the class the setter of origin or direction asks for
RightClass(prop) == IF prop = "origin" THEN "Point3D" ELSE "Vector3D"

\* the last call assigned a list or tuple of the right length to the group's origin or
\* direction and failed with the TypeError of an element of the wrong class
PartialFailure ==
    /\ last.op = "group_set"
    /\ last.prop \in GeometryProps
    /\ last.arg.cls \in {"list", "tuple"}
    /\ PyLen(last.arg) = Len(sight_lines)
    /\ last.err.type = "TypeError"
    /\ last.err.what \in {"not_point3d", "not_vector3d"}

\* the first position of last.arg that holds a value of the wrong class
WrongAt ==
    LET W == {i \in 1..PyLen(last.arg) : last.arg.items[i].cls # RightClass(last.prop)}
    IN CHOOSE i \in W : \A j \in W : i <= j

\* the transform of the observer is the one of its origin and direction
Recomputed(ob) ==
    ob.transform = Compose(Translate(ob.origin.num[1], ob.origin.num[2], ob.origin.num[3]),
                           RotateBasis(ob.direction, UpVector(ob.direction)))

\* the observer's origin, direction and transform are those the last call found
Placed(o) ==
    /\ obs[o].origin = last.pre_obs[o].origin
    /\ obs[o].direction = last.pre_obs[o].direction
    /\ obs[o].transform = last.pre_obs[o].transform

\* the claim as stated: when the element at position k is of the wrong class, each
\* member at a position i before k holds item i and the transform that goes with it,
\* and each member at position k or later holds the origin, direction and transform
\* it had before the call
C19_MembersFromKKeepPlacement ==
    PartialFailure =>
        \A i \in 1..Len(sight_lines) :
           IF i < WrongAt
           THEN /\ obs[sight_lines[i]][last.prop] = last.arg.items[i]
                /\ Recomputed(obs[sight_lines[i]])
           ELSE Placed(sight_lines[i])

\* C19: when a positional assignment of the right length to a group's origin or
\* direction fails because the element at position k is of the wrong class, each
\* observer that is a member at a position before k holds the item of its last position
\* before k and the transform that goes with it, with nothing else of it changed, and
\* every other observer, the members at position k and later among them, is as it was
\* before the call.
C19_PartialAssignment ==
    PartialFailure =>
        \A o \in Obs :
           LET B == {i \in 1..(WrongAt - 1) : sight_lines[i] = o}
           IN IF B = {}
              THEN obs[o] = last.pre_obs[o]
              ELSE LET i == CHOOSE i \in B : \A j \in B : j <= i
                   IN /\ obs[o][last.prop] = last.arg.items[i]
                      /\ Recomputed(obs[o])
                      /\ [obs[o] EXCEPT ![last.prop] = last.pre_obs[o][last.prop],
                                         !.transform = last.pre_obs[o].transform] = last.pre_obs[o]

\* the assignment failed at the second of two different members after it gave the
\* first another value than it had
C19_Witness ==
    /\ PartialFailure
    /\ WrongAt = 2
    /\ sight_lines[1] # sight_lines[2]
    /\ obs[sight_lines[1]][last.prop] # last.pre_obs[sight_lines[1]][last.prop]
    /\ obs[sight_lines[1]].transform # last.pre_obs[sight_lines[1]].transform

====
